---- MODULE Spec2Model ----
(***************************************************************************)
(* Model of bpdashboard.py, a Streamlit dashboard script.  The script is   *)
(* re-executed top to bottom on every widget change.  One action of the    *)
(* model is one user interaction followed by the whole script run it       *)
(* triggers: load_data, the sidebar widgets, the filter chain, the KPI     *)
(* row, aggregate_data, the chart tables, the data summary and the export. *)
(*                                                                         *)
(* A table (DataFrame) is a sequence of rows; a row is a record whose      *)
(* fields are the spreadsheet columns.  A numeric cell is <<"num", v>>,    *)
(* <<"nan", 0>> (blank / coerced) or <<"text", 0>> (a non-numeric string). *)
(* Strings that the script concatenates or sorts (period labels) are       *)
(* sequences of code points.                                               *)
(***************************************************************************)
EXTENDS Integers, Sequences, FiniteSets, TLC

\* ---------------------------------------------------------------- bounds
\* Largest number of data rows in the spreadsheet.
MaxRows == 2

\* The minutes the wall clock is followed for.
MaxTime == 3

\* The documented lifetime of a cached table, in minutes.
CacheLifetime == 2

\* ------------------------------------------------------------ cell values
Num(v) == <<"num", v>>
NaN == <<"nan", 0>>
Text == <<"text", 0>>
\* A blank Month cell as read_excel delivers it (float nan in an object column).
NaNLabel == "nan"

IsNum(c) == c[1] = "num"
IsText(c) == c[1] = "text"

\* pd.to_numeric(column, errors='coerce'): a non-numeric cell becomes NaN.
to_numeric_coerce(c) == IF IsNum(c) THEN c ELSE NaN

\* ------------------------------------------------------------- string ops
RECURSIVE Digits(_)
\* str(n) of a non-negative integer, as code points.
Digits(n) == IF n < 10 THEN <<48 + n>> ELSE Digits(n \div 10) \o <<48 + (n % 10)>>

month_order == <<"Jan", "Feb", "Mar", "Apr", "May", "Jun",
                 "Jul", "Aug", "Sep", "Oct", "Nov", "Dec">>

\* The code points of a month abbreviation.
Chars(label) ==
    CASE label = "Jan" -> <<74, 97, 110>>
      [] label = "Feb" -> <<70, 101, 98>>
      [] label = "Mar" -> <<77, 97, 114>>
      [] label = "Apr" -> <<65, 112, 114>>
      [] label = "May" -> <<77, 97, 121>>
      [] label = "Jun" -> <<74, 117, 110>>
      [] label = "Jul" -> <<74, 117, 108>>
      [] label = "Aug" -> <<65, 117, 103>>
      [] label = "Sep" -> <<83, 101, 112>>
      [] label = "Oct" -> <<79, 99, 116>>
      [] label = "Nov" -> <<78, 111, 118>>
      [] label = "Dec" -> <<68, 101, 99>>

\* The missing string value of a derived label column.
NaNStr == <<>>

\* ------------------------------------------------------------ calendar
IsLeap(y) == (y % 4 = 0 /\ y % 100 # 0) \/ y % 400 = 0

DaysBefore(y, m) ==
    LET cum == <<0, 31, 59, 90, 120, 151, 181, 212, 243, 273, 304, 334>>
    IN cum[m] + (IF m > 2 /\ IsLeap(y) THEN 1 ELSE 0)

\* ISO weekday (Monday = 1 .. Sunday = 7) of the date y-m-d.
IsoWeekday(y, m, d) ==
    LET t == <<0, 3, 2, 5, 0, 3, 5, 1, 4, 6, 2, 4>>
        yy == IF m < 3 THEN y - 1 ELSE y
        dow == (yy + yy \div 4 - yy \div 100 + yy \div 400 + t[m] + d) % 7
    IN IF dow = 0 THEN 7 ELSE dow

\* The number of ISO weeks of year y (52 or 53).
WeeksInYear(y) ==
    LET p(z) == (z + z \div 4 - z \div 100 + z \div 400) % 7
    IN IF p(y) = 4 \/ p(y - 1) = 3 THEN 53 ELSE 52

\* Series.dt.isocalendar().week of the date y-m-d.
IsoWeek(y, m, d) ==
    LET doy == DaysBefore(y, m) + d
        w == (doy - IsoWeekday(y, m, d) + 10) \div 7
    IN IF w < 1 THEN WeeksInYear(y - 1)
       ELSE IF w > WeeksInYear(y) THEN 1
       ELSE w

\* Series.dt.quarter
QuarterOf(m) == (m - 1) \div 3 + 1

\* ------------------------------------------------------------ the file
\* The columns of RPA_Metrics_Dashboard.xlsx that the modelled steps read
\* (Business_SubArea and Application, read only by chart tables, are left out).
FileColumns == <<"Run_Year", "Run_Month", "Month", "Business_Area", "Process_Name",
                 "Machine_Name", "Total_Executions", "Successful_Executions",
                 "Exception_Executions", "Manual_Hours_Saved", "Cost_Savings_Dollars">>

\* The columns load_data adds, in the order it adds them.
DerivedColumns == <<"Date", "Quarter", "Year_Quarter", "Year_Month", "Week">>

Range(s) == {s[i] : i \in DOMAIN s}

Row(y, m, label, area, proc, mach, te, se, ee, mh, cs) ==
    [Run_Year |-> y, Run_Month |-> m, Month |-> label, Business_Area |-> area,
     Process_Name |-> proc, Machine_Name |-> mach, Total_Executions |-> te,
     Successful_Executions |-> se, Exception_Executions |-> ee,
     Manual_Hours_Saved |-> mh, Cost_Savings_Dollars |-> cs]

\* The spreadsheet rows the model draws its files from.
RowPool ==
    << Row(2023, 1, "Jan", "Finance", "Invoice", "BOT1",
           Num(2), Num(1), Num(1), Num(2), Num(3)),
       Row(2024, 1, "Jan", "Finance", "Invoice", "BOT2",
           Num(1), Num(1), Num(0), Num(1), Text),
       Row(2024, 2, "Feb", "HR", "Payroll", "BOT1",
           Num(3), Num(2), Num(1), NaN, Num(2)),
       Row(2024, 4, "Apr", "HR", "Onboard", "BOT1",
           Num(0), Num(0), Num(0), Num(1), Num(1)),
       Row(2023, 2, NaNLabel, "HR", "Payroll", "BOT2",
           Num(1), Num(1), Num(0), Num(1), Num(2)),
       Row(2024, 2, "Feb", "Finance", "Invoice", "BOT1",
           Text, Num(1), Num(0), Num(1), Num(1)),
       Row(2024, 1, "Feb", "Finance", "Invoice", "BOT2",
           Num(1), Num(1), Num(0), Num(2), Num(1)) >>

RECURSIVE SeqOfSet(_)
\* The pool rows with the indices S, in pool order.
SeqOfSet(S) ==
    IF S = {} THEN <<>>
    ELSE LET i == CHOOSE x \in S : \A z \in S : x <= z
         IN <<RowPool[i]>> \o SeqOfSet(S \ {i})

Tables == {SeqOfSet(S) : S \in {T \in SUBSET DOMAIN RowPool : Cardinality(T) <= MaxRows}}

\* The spreadsheets on disk: complete ones, ones lacking a column, and no file.
Files ==
    {[exists |-> TRUE, columns |-> Range(FileColumns), rows |-> t] : t \in Tables}
    \cup {[exists |-> TRUE, columns |-> Range(FileColumns) \ {c},
           rows |-> SeqOfSet(1 .. MaxRows)] :
          c \in {"Run_Year", "Business_Area", "Total_Executions"}}
    \cup {[exists |-> FALSE, columns |-> {}, rows |-> <<>>]}

\* ------------------------------------------------------------ exceptions
NoError == [line |-> 0, kind |-> "", key |-> ""]
Raise(line, kind, key) == [line |-> line, kind |-> kind, key |-> key]

\* The first exception of a sequence of outcomes, NoError if there is none.
FirstError(errs) ==
    IF \E i \in DOMAIN errs : errs[i] # NoError
    THEN errs[CHOOSE i \in DOMAIN errs :
                /\ errs[i] # NoError
                /\ \A j \in DOMAIN errs : errs[j] # NoError => i <= j]
    ELSE NoError

\* ------------------------------------------------------------ load_data
\* The first column, in the order load_data reads them, that the sheet lacks.
LoadKeyError(cols) ==
    IF "Run_Year" \notin cols THEN Raise(71, "KeyError", "Run_Year")
    ELSE IF "Run_Month" \notin cols THEN Raise(71, "KeyError", "Run_Month")
    ELSE IF "Month" \notin cols THEN Raise(74, "KeyError", "Month")
    ELSE IF "Cost_Savings_Dollars" \notin cols
         THEN Raise(78, "KeyError", "Cost_Savings_Dollars")
    ELSE IF "Manual_Hours_Saved" \notin cols
         THEN Raise(79, "KeyError", "Manual_Hours_Saved")
    ELSE NoError

\* One row of the table load_data returns.
PrepareRow(r) ==
    [Run_Year |-> r.Run_Year, Run_Month |-> r.Run_Month, Month |-> r.Month,
     Business_Area |-> r.Business_Area, Process_Name |-> r.Process_Name,
     Machine_Name |-> r.Machine_Name, Total_Executions |-> r.Total_Executions,
     Successful_Executions |-> r.Successful_Executions,
     Exception_Executions |-> r.Exception_Executions,
     Manual_Hours_Saved |-> to_numeric_coerce(r.Manual_Hours_Saved),
     Cost_Savings_Dollars |-> to_numeric_coerce(r.Cost_Savings_Dollars),
     Date |-> <<r.Run_Year, r.Run_Month, 1>>,
     Quarter |-> QuarterOf(r.Run_Month),
     Year_Quarter |-> Digits(r.Run_Year) \o <<32, 81>> \o Digits(QuarterOf(r.Run_Month)),
     Year_Month |-> IF r.Month = NaNLabel THEN NaNStr
                    ELSE Digits(r.Run_Year) \o <<45>> \o Chars(r.Month),
     Week |-> IsoWeek(r.Run_Year, r.Run_Month, 1)]

\* The body of load_data: read the sheet, add the derived columns, coerce two
\* numeric columns.  Nothing is caught: an exception leaves the function.
load_data(f) ==
    IF ~f.exists THEN [error |-> Raise(63, "FileNotFoundError", ""), df |-> <<>>]
    ELSE IF LoadKeyError(f.columns) # NoError
         THEN [error |-> LoadKeyError(f.columns), df |-> <<>>]
    ELSE IF \E i \in DOMAIN f.rows : f.rows[i].Run_Month \notin 1 .. 12
         THEN [error |-> Raise(71, "ValueError", ""), df |-> <<>>]
    ELSE [error |-> NoError, df |-> [i \in DOMAIN f.rows |-> PrepareRow(f.rows[i])]]

\* @st.cache_data keeps the returned table; an exception is not cached.
NoCache == <<>>

\* ------------------------------------------------------------ sidebar
Periods == {"Daily", "Weekly", "Monthly", "Quarterly", "Yearly"}

\* all_years, as the set behind the sorted option list.
all_years(t) == {t[i].Run_Year : i \in DOMAIN t}

\* The Month labels of the rows of the selected years (the list handed to sorted()).
MonthLabels(t, years) == {t[i].Month : i \in {j \in DOMAIN t : t[j].Run_Year \in years}}

\* datetime.strptime(x, '%b') accepts exactly the twelve abbreviations; a blank
\* cell (float nan) is a TypeError, any other text a ValueError.
StrptimeError(labels) ==
    IF NaNLabel \in labels THEN Raise(107, "TypeError", "")
    ELSE IF \E x \in labels : x \notin Range(month_order) THEN Raise(107, "ValueError", "")
    ELSE NoError

business_area_options(t) == {"All"} \cup {t[i].Business_Area : i \in DOMAIN t}

\* Process options that ignore the selected business area.
process_name_options_any_area(t, area) ==
    {"All"} \cup {t[i].Process_Name : i \in DOMAIN t}

\* process_names: restricted to the selected business area unless it is 'All'.
process_name_options(t, area) ==
    IF area # "All"
    THEN {"All"} \cup {t[i].Process_Name : i \in {j \in DOMAIN t : t[j].Business_Area = area}}
    ELSE {"All"} \cup {t[i].Process_Name : i \in DOMAIN t}

machine_name_options(t) == {"All"} \cup {t[i].Machine_Name : i \in DOMAIN t}

\* ------------------------------------------------------------ filter chain
\* DataFrame boolean indexing filtered_df[mask] is SelectSeq: the rows that
\* satisfy the mask, in order.
\* A year filter without the guard on an empty selection.
YearStepNoGuard(t, years) == SelectSeq(t, LAMBDA r : r.Run_Year \in years)

YearStep(t, years) ==
    IF years # {} THEN SelectSeq(t, LAMBDA r : r.Run_Year \in years) ELSE t

\* A month filter applied even when no month is selected.
MonthStepNoGuard(t, months) == SelectSeq(t, LAMBDA r : r.Month \in months)

MonthStep(t, months) ==
    IF months # {} THEN SelectSeq(t, LAMBDA r : r.Month \in months) ELSE t

BusinessAreaStep(t, area) ==
    IF area # "All" THEN SelectSeq(t, LAMBDA r : r.Business_Area = area) ELSE t

ProcessStep(t, process) ==
    IF process # "All" THEN SelectSeq(t, LAMBDA r : r.Process_Name = process) ELSE t

\* A machine filter that keeps the table when nothing matches.
MachineStepFallback(t, machine) ==
    IF machine # "All" /\ \E i \in DOMAIN t : t[i].Machine_Name = machine
    THEN SelectSeq(t, LAMBDA r : r.Machine_Name = machine)
    ELSE t

MachineStep(t, machine) ==
    IF machine # "All" THEN SelectSeq(t, LAMBDA r : r.Machine_Name = machine) ELSE t

\* One step of the chain, by name; sel holds the five selections.
FilterStep(name, t, sel) ==
    CASE name = "year" -> YearStep(t, sel.years)
      [] name = "month" -> MonthStep(t, sel.months)
      [] name = "area" -> BusinessAreaStep(t, sel.area)
      [] name = "process" -> ProcessStep(t, sel.process)
      [] name = "machine" -> MachineStep(t, sel.machine)

RECURSIVE ApplySteps(_, _, _)
\* The steps named in order, applied left to right.
ApplySteps(order, t, sel) ==
    IF order = <<>> THEN t
    ELSE ApplySteps(Tail(order), FilterStep(Head(order), t, sel), sel)

\* The order in which the script applies the steps.
ScriptOrder == <<"year", "month", "area", "process", "machine">>

\* filtered_df = df.copy() followed by the five conditional steps.
apply_filters(t, sel) == ApplySteps(ScriptOrder, t, sel)

\* ------------------------------------------------------------ sums
RECURSIVE SumCol(_, _)
\* Series.sum() of a numeric column: NaN cells are skipped.
SumCol(t, col) ==
    IF t = <<>> THEN 0
    ELSE (IF IsNum(Head(t)[col]) THEN Head(t)[col][2] ELSE 0) + SumCol(Tail(t), col)

\* The column holds a string cell (object dtype): adding it to a number raises.
ColHasText(t, col) == \E i \in DOMAIN t : IsText(t[i][col])

\* The exception of summing column col of t, if any.
SumError(t, cols, col, line) ==
    IF col \notin cols THEN Raise(line, "KeyError", col)
    ELSE IF ColHasText(t, col) THEN Raise(line, "TypeError", col)
    ELSE NoError

\* ------------------------------------------------------------ key metrics
\* The five st.metric values; success_rate is the fraction <<numerator, denominator>>.
key_metrics(t, cols) ==
    LET e1 == SumError(t, cols, "Total_Executions", 168)
        total == SumCol(t, "Total_Executions")
        e4 == IF total > 0 THEN SumError(t, cols, "Successful_Executions", 192)
              ELSE NoError
        err == IF e1 # NoError THEN e1 ELSE e4
    IN IF err # NoError
       THEN [error |-> err, total_executions |-> 0, total_hours_saved |-> 0,
             total_cost_savings |-> 0, success_rate |-> <<0, 1>>, unique_processes |-> 0]
       ELSE [error |-> NoError,
             total_executions |-> total,
             total_hours_saved |-> SumCol(t, "Manual_Hours_Saved"),
             total_cost_savings |-> SumCol(t, "Cost_Savings_Dollars"),
             success_rate |-> IF total > 0
                              THEN <<SumCol(t, "Successful_Executions") * 100, total>>
                              ELSE <<0, 1>>,
             unique_processes |-> Cardinality({t[i].Process_Name : i \in DOMAIN t})]

\* ------------------------------------------------------------ aggregate_data
RECURSIVE LexLess(_, _)
\* a < b for sequences of integers: the order of Python strings (by code point),
\* of (year, week) tuples and of dates <<year, month, day>>.
LexLess(a, b) ==
    IF a = <<>> THEN b # <<>>
    ELSE IF b = <<>> THEN FALSE
    ELSE IF Head(a) < Head(b) THEN TRUE
    ELSE IF Head(a) > Head(b) THEN FALSE
    ELSE LexLess(Tail(a), Tail(b))

RECURSIVE SortKeys(_)
\* The group keys in ascending order (groupby sorts its keys).
SortKeys(S) ==
    IF S = {} THEN <<>>
    ELSE LET m == CHOOSE x \in S : \A z \in S \ {x} : LexLess(x, z)
         IN <<m>> \o SortKeys(S \ {m})

\* A grouping whose Daily key is the first day of the row's year.
GroupKeyYearStart(r, period) ==
    CASE period = "Daily" -> <<r.Run_Year, 1, 1>>
      [] period = "Weekly" -> <<r.Run_Year, r.Week>>
      [] period = "Monthly" -> r.Year_Month
      [] period = "Quarterly" -> r.Year_Quarter
      [] OTHER -> <<r.Run_Year>>

\* The value a row is grouped by under each granularity.
GroupKey(r, period) ==
    CASE period = "Daily" -> r.Date
      [] period = "Weekly" -> <<r.Run_Year, r.Week>>
      [] period = "Monthly" -> r.Year_Month
      [] period = "Quarterly" -> r.Year_Quarter
      [] OTHER -> <<r.Run_Year>>

\* A week label that leaves the year out.
PeriodOfKeyNoYear(k, period) ==
    IF period = "Weekly" THEN <<87>> \o Digits(k[2]) ELSE k

\* The Period of a group: 'W' + str(Week) + ' ' + str(Run_Year) for Weekly,
\* the renamed group column otherwise.
PeriodOfKey(k, period) ==
    IF period = "Weekly" THEN <<87>> \o Digits(k[2]) \o <<32>> \o Digits(k[1]) ELSE k

\* groupby(...).agg(sum) drops the rows whose key is missing (dropna=True).
GroupKeys(t, period) == {GroupKey(t[i], period) : i \in DOMAIN t} \ {NaNStr}

\* groupby(keys).agg({five columns: 'sum'}).reset_index(), with the Period column.
GroupBySum(t, cols, period) ==
    LET line == IF period = "Weekly" THEN 215 ELSE 231
        sumcols == <<"Total_Executions", "Manual_Hours_Saved", "Cost_Savings_Dollars",
                     "Successful_Executions", "Exception_Executions">>
        errs == [i \in DOMAIN sumcols |-> SumError(t, cols, sumcols[i], line)]
        bad == {i \in DOMAIN sumcols : errs[i] # NoError}
        keys == SortKeys(GroupKeys(t, period))
        group(k) == SelectSeq(t, LAMBDA r : GroupKey(r, period) = k)
        agg(k) == [Period |-> PeriodOfKey(k, period),
                   Total_Executions |-> SumCol(group(k), "Total_Executions"),
                   Manual_Hours_Saved |-> SumCol(group(k), "Manual_Hours_Saved"),
                   Cost_Savings_Dollars |-> SumCol(group(k), "Cost_Savings_Dollars"),
                   Successful_Executions |-> SumCol(group(k), "Successful_Executions"),
                   Exception_Executions |-> SumCol(group(k), "Exception_Executions")]
    IN IF bad # {}
       THEN [error |-> errs[CHOOSE i \in bad : \A j \in bad : i <= j], rows |-> <<>>]
       ELSE [error |-> NoError, rows |-> [i \in DOMAIN keys |-> agg(keys[i])]]

\* An aggregate_data that reads the first row of its input before grouping.
aggregate_data_first_row(t, cols, period) ==
    IF t = <<>> THEN [error |-> Raise(231, "IndexError", ""), rows |-> <<>>]
    ELSE GroupBySum(t, cols, period)

aggregate_data(t, cols, period) == GroupBySum(t, cols, period)

\* ------------------------------------------------------------ cumulative savings
RECURSIVE SortByPeriod(_)
\* sort_values('Period') of a table whose rows carry a Period.
SortByPeriod(rows) ==
    IF rows = <<>> THEN <<>>
    ELSE LET i == CHOOSE x \in DOMAIN rows :
                    \A z \in DOMAIN rows : ~LexLess(rows[z].Period, rows[x].Period)
             rest == [j \in 1 .. Len(rows) - 1 |-> IF j < i THEN rows[j] ELSE rows[j + 1]]
         IN <<rows[i]>> \o SortByPeriod(rest)

RECURSIVE CumSum(_, _)
\* Series.cumsum(), started at acc.
CumSum(vals, acc) ==
    IF vals = <<>> THEN <<>>
    ELSE <<acc + Head(vals)>> \o CumSum(Tail(vals), acc + Head(vals))

\* time_series_data_sorted with its Cumulative_Savings column.
cumulative_savings(rows) ==
    LET sorted == SortByPeriod(rows)
        cum == CumSum([i \in DOMAIN sorted |-> sorted[i].Cost_Savings_Dollars], 0)
    IN [i \in DOMAIN sorted |->
          [Period |-> sorted[i].Period, Cumulative_Savings |-> cum[i]]]

\* ------------------------------------------------------------ data summary
\* The Data Period box: min and max of Date, each formatted with strftime.
\* On an empty table min() is NaT, and NaT.strftime raises.
data_summary(t) ==
    IF t = <<>> THEN [error |-> Raise(832, "ValueError", ""), data_period |-> <<>>]
    ELSE LET dates == SortKeys({t[i].Date : i \in DOMAIN t})
         IN [error |-> NoError, data_period |-> <<dates[1], dates[Len(dates)]>>]

\* ------------------------------------------------------------ export
\* The columns of the loaded table, in order.
TableColumns(cols) == SelectSeq(FileColumns, LAMBDA c : c \in cols) \o DerivedColumns

\* DataFrame.to_csv(index=False): a header record, then one record per row.
to_csv(t, cols) ==
    LET tc == TableColumns(cols)
    IN <<tc>> \o [i \in DOMAIN t |-> [j \in DOMAIN tc |-> t[i][tc[j]]]]

\* DataFrame.to_excel(writer, index=False, sheet_name="RPA Metrics").
to_excel(t, cols) ==
    LET tc == TableColumns(cols)
    IN [sheet_name |-> "RPA Metrics",
        cells |-> <<tc>> \o [i \in DOMAIN t |-> [j \in DOMAIN tc |-> t[i][tc[j]]]]]

\* An export of the whole loaded table.
ExportSourceLoaded(loaded, filtered) == loaded

\* The table both writers are given.
ExportSource(loaded, filtered) == filtered

\* ------------------------------------------------------------ state
VARIABLES
    file,                    \* RPA_Metrics_Dashboard.xlsx on disk
    now,                     \* the wall clock, in minutes since the page was opened
    cache,                   \* the st.cache_data entry of load_data: <<>> or <<entry>>
    pc,                      \* the section the running script is about to execute
    shown,                   \* the widgets the last run created (their state is kept)
    time_period,             \* the widgets' values
    selected_years,
    selected_months,
    selected_business_area,
    selected_process,
    selected_machine,
    available_months,        \* the options of the month widget ({} when not shown)
    process_names,           \* the options of the process widget ({} when not shown)
    df,                      \* the script's globals
    filtered_df,
    total_executions,
    total_hours_saved,
    total_cost_savings,
    success_rate,
    unique_processes,
    time_series_data,
    time_series_data_sorted,
    data_period,
    csv_data,
    excel_data,
    error,                   \* the uncaught exception that ended the run
    steps                    \* the sections the run has completed

vars == <<file, now, cache, pc, shown, time_period, selected_years, selected_months,
          selected_business_area, selected_process, selected_machine,
          available_months, process_names, df, filtered_df, total_executions,
          total_hours_saved, total_cost_savings, success_rate, unique_processes,
          time_series_data, time_series_data_sorted, data_period, csv_data,
          excel_data, error, steps>>

widgets == <<time_period, selected_years, selected_months, selected_business_area,
             selected_process, selected_machine, available_months, process_names>>

kpis == <<total_executions, total_hours_saved, total_cost_savings, success_rate,
          unique_processes>>

NoExcel == [sheet_name |-> "", cells |-> <<>>]

\* The script's globals before the script has assigned them.
FreshGlobals ==
    /\ df' = <<>>
    /\ filtered_df' = <<>>
    /\ total_executions' = 0
    /\ total_hours_saved' = 0
    /\ total_cost_savings' = 0
    /\ success_rate' = <<0, 1>>
    /\ unique_processes' = 0
    /\ time_series_data' = <<>>
    /\ time_series_data_sorted' = <<>>
    /\ data_period' = <<>>
    /\ csv_data' = <<>>
    /\ excel_data' = NoExcel
    /\ error' = NoError
    /\ steps' = <<>>

Init ==
    /\ file \in Files
    /\ now = 0
    /\ cache = NoCache
    /\ pc = "idle"
    /\ shown = {}
    /\ time_period = "Daily"
    /\ selected_years = {}
    /\ selected_months = {}
    /\ selected_business_area = "All"
    /\ selected_process = "All"
    /\ selected_machine = "All"
    /\ available_months = {}
    /\ process_names = {}
    /\ df = <<>>
    /\ filtered_df = <<>>
    /\ total_executions = 0
    /\ total_hours_saved = 0
    /\ total_cost_savings = 0
    /\ success_rate = <<0, 1>>
    /\ unique_processes = 0
    /\ time_series_data = <<>>
    /\ time_series_data_sorted = <<>>
    /\ data_period = <<>>
    /\ csv_data = <<>>
    /\ excel_data = NoExcel
    /\ error = NoError
    /\ steps = <<>>

\* The columns of the loaded table.
Columns == cache[1].columns

\* ------------------------------------------------------------ the script
\* An uncaught exception ends the run: the framework shows it and stops the script.
Halt(e) ==
    /\ error' = e
    /\ pc' = "halted"
    /\ UNCHANGED steps

\* The section completed; the script goes on to the next one.
Goto(section, next) ==
    /\ steps' = Append(steps, section)
    /\ pc' = next
    /\ UNCHANGED error

\* Lines 60-83: df = load_data(), served from the cache when it holds the table.
\* The decorator of line 61 is given no ttl and no max_entries: an entry, once
\* stored, is served whatever its age.
LoadData ==
    /\ pc = "load"
    /\ LET L == IF cache # NoCache THEN [error |-> NoError, df |-> cache[1].df]
                ELSE load_data(file)
       IN IF L.error # NoError
          THEN /\ Halt(L.error)
               /\ shown' = {}
               /\ time_period' = "Daily"
               /\ selected_years' = {}
               /\ selected_months' = {}
               /\ selected_business_area' = "All"
               /\ selected_process' = "All"
               /\ selected_machine' = "All"
               /\ available_months' = {}
               /\ process_names' = {}
               /\ UNCHANGED <<cache, df>>
          ELSE /\ Goto("load", "sidebar")
               /\ df' = L.df
               /\ cache' = IF cache # NoCache THEN cache
                           ELSE <<[df |-> L.df,
                                   columns |-> file.columns \cup Range(DerivedColumns),
                                   loaded_at |-> now]>>
               /\ UNCHANGED <<shown, widgets>>
    /\ UNCHANGED <<file, now, filtered_df, kpis, time_series_data, time_series_data_sorted,
                   data_period, csv_data, excel_data>>

\* Lines 86-140: the six sidebar widgets.  A widget the run does not reach is not
\* created and loses its state; a widget whose options changed starts from its
\* default.
Sidebar ==
    /\ pc = "sidebar"
    /\ LET yrs == IF "years" \in shown THEN selected_years ELSE all_years(df)
           eMonth == IF yrs # {} THEN StrptimeError(MonthLabels(df, yrs)) ELSE NoError
           avail == IF yrs # {} /\ eMonth = NoError THEN MonthLabels(df, yrs) ELSE {}
           mths == IF avail = available_months THEN selected_months ELSE avail
           eArea == IF "Business_Area" \in Columns THEN NoError
                    ELSE Raise(118, "KeyError", "Business_Area")
           eProc == IF "Process_Name" \in Columns THEN NoError
                    ELSE Raise(IF selected_business_area # "All" THEN 126 ELSE 128,
                               "KeyError", "Process_Name")
           popts == process_name_options(df, selected_business_area)
           proc == IF popts = process_names THEN selected_process ELSE "All"
           eMach == IF "Machine_Name" \in Columns THEN NoError
                    ELSE Raise(136, "KeyError", "Machine_Name")
           e == FirstError(<<eMonth, eArea, eProc, eMach>>)
           reached(line) == e = NoError \/ e.line > line
       IN /\ IF e = NoError THEN Goto("sidebar", "filters") ELSE Halt(e)
          /\ shown' = {"time_period", "years"}
                      \cup (IF yrs # {} /\ reached(109) THEN {"months"} ELSE {})
                      \cup (IF reached(119) THEN {"area"} ELSE {})
                      \cup (IF reached(130) THEN {"process"} ELSE {})
                      \cup (IF reached(137) THEN {"machine"} ELSE {})
          /\ selected_years' = yrs
          /\ selected_months' = IF reached(109) THEN mths ELSE {}
          /\ available_months' = IF reached(109) THEN avail ELSE {}
          /\ selected_business_area' = IF reached(119) THEN selected_business_area ELSE "All"
          /\ selected_process' = IF reached(130) THEN proc ELSE "All"
          /\ process_names' = IF reached(130) THEN popts ELSE {}
          /\ selected_machine' = IF reached(137) THEN selected_machine ELSE "All"
    /\ UNCHANGED <<file, now, cache, time_period, df, filtered_df, kpis, time_series_data,
                   time_series_data_sorted, data_period, csv_data, excel_data>>

\* The five selections the filter chain reads.
Selection ==
    [years |-> selected_years, months |-> selected_months,
     area |-> selected_business_area, process |-> selected_process,
     machine |-> selected_machine]

\* A filter chain that writes its result back to the loaded table.
BindFilteredInPlace(loaded, result) == [df |-> result, filtered_df |-> result]

\* The globals df and filtered_df after the filter chain: filtered_df is bound
\* to the derived table, df is left as loaded.
BindFiltered(loaded, result) == [df |-> loaded, filtered_df |-> result]

\* Lines 142-158: filtered_df = df.copy(), then the five conditional steps.
ApplyFilters ==
    /\ pc = "filters"
    /\ LET B == BindFiltered(df, apply_filters(df, Selection))
       IN /\ df' = B.df
          /\ filtered_df' = B.filtered_df
    /\ Goto("filters", "kpi")
    /\ UNCHANGED <<file, now, cache, shown, widgets, kpis, time_series_data,
                   time_series_data_sorted, data_period, csv_data, excel_data>>

\* Lines 164-205: the five metrics of the KPI row.
KeyMetrics ==
    /\ pc = "kpi"
    /\ LET K == key_metrics(filtered_df, Columns)
       IN IF K.error # NoError
          THEN /\ Halt(K.error)
               /\ UNCHANGED kpis
          ELSE /\ Goto("kpi", "aggregate")
               /\ total_executions' = K.total_executions
               /\ total_hours_saved' = K.total_hours_saved
               /\ total_cost_savings' = K.total_cost_savings
               /\ success_rate' = K.success_rate
               /\ unique_processes' = K.unique_processes
    /\ UNCHANGED <<file, now, cache, shown, widgets, df, filtered_df, time_series_data,
                   time_series_data_sorted, data_period, csv_data, excel_data>>

\* Lines 209-243: time_series_data = aggregate_data(filtered_df, time_period).
Aggregate ==
    /\ pc = "aggregate"
    /\ LET A == aggregate_data(filtered_df, Columns, time_period)
       IN IF A.error # NoError
          THEN /\ Halt(A.error)
               /\ UNCHANGED time_series_data
          ELSE /\ Goto("aggregate", "charts")
               /\ time_series_data' = A.rows
    /\ UNCHANGED <<file, now, cache, shown, widgets, df, filtered_df, kpis,
                   time_series_data_sorted, data_period, csv_data, excel_data>>

\* Lines 245-821: the chart tables; of these the model keeps the cumulative
\* savings table (lines 307-310).
Charts ==
    /\ pc = "charts"
    /\ time_series_data_sorted' = cumulative_savings(time_series_data)
    /\ Goto("charts", "summary")
    /\ UNCHANGED <<file, now, cache, shown, widgets, df, filtered_df, kpis, time_series_data,
                   data_period, csv_data, excel_data>>

\* Lines 825-852: the Data Summary boxes.
DataSummary ==
    /\ pc = "summary"
    /\ LET D == data_summary(filtered_df)
       IN IF D.error # NoError
          THEN /\ Halt(D.error)
               /\ UNCHANGED data_period
          ELSE /\ Goto("summary", "export")
               /\ data_period' = D.data_period
    /\ UNCHANGED <<file, now, cache, shown, widgets, df, filtered_df, kpis, time_series_data,
                   time_series_data_sorted, csv_data, excel_data>>

\* Lines 855-890: the CSV and the spreadsheet handed to the download buttons.
Export ==
    /\ pc = "export"
    /\ csv_data' = to_csv(ExportSource(df, filtered_df), Columns)
    /\ excel_data' = to_excel(ExportSource(df, filtered_df), Columns)
    /\ Goto("export", "done")
    /\ UNCHANGED <<file, now, cache, shown, widgets, df, filtered_df, kpis, time_series_data,
                   time_series_data_sorted, data_period>>

\* ------------------------------------------------------------ the user
\* The run has ended, normally or by an exception: the page waits for the user.
Waiting == pc \in {"done", "halted"}

\* A re-execution starts from the top with fresh globals.
StartRun ==
    /\ pc' = "load"
    /\ FreshGlobals
    /\ UNCHANGED <<file, now, cache, shown>>

\* The user opens the page: the first execution, every widget at its default.
FirstRun ==
    /\ pc = "idle"
    /\ StartRun
    /\ UNCHANGED widgets

\* The user asks for a re-execution without changing a widget.
Rerun ==
    /\ Waiting
    /\ StartRun
    /\ UNCHANGED widgets

SelectTimePeriod ==
    /\ Waiting /\ "time_period" \in shown
    /\ time_period' \in Periods \ {time_period}
    /\ StartRun
    /\ UNCHANGED <<selected_years, selected_months, selected_business_area,
                   selected_process, selected_machine, available_months, process_names>>

SelectYears ==
    /\ Waiting /\ "years" \in shown
    /\ selected_years' \in (SUBSET all_years(df)) \ {selected_years}
    /\ StartRun
    /\ UNCHANGED <<time_period, selected_months, selected_business_area,
                   selected_process, selected_machine, available_months, process_names>>

SelectMonths ==
    /\ Waiting /\ "months" \in shown
    /\ selected_months' \in (SUBSET available_months) \ {selected_months}
    /\ StartRun
    /\ UNCHANGED <<time_period, selected_years, selected_business_area,
                   selected_process, selected_machine, available_months, process_names>>

SelectBusinessArea ==
    /\ Waiting /\ "area" \in shown
    /\ selected_business_area' \in business_area_options(df) \ {selected_business_area}
    /\ StartRun
    /\ UNCHANGED <<time_period, selected_years, selected_months,
                   selected_process, selected_machine, available_months, process_names>>

SelectProcess ==
    /\ Waiting /\ "process" \in shown
    /\ selected_process' \in process_names \ {selected_process}
    /\ StartRun
    /\ UNCHANGED <<time_period, selected_years, selected_months, selected_business_area,
                   selected_machine, available_months, process_names>>

SelectMachine ==
    /\ Waiting /\ "machine" \in shown
    /\ selected_machine' \in machine_name_options(df) \ {selected_machine}
    /\ StartRun
    /\ UNCHANGED <<time_period, selected_years, selected_months, selected_business_area,
                   selected_process, available_months, process_names>>

\* A minute passes while the page waits for the user.
Tick ==
    /\ pc \in {"idle", "done", "halted"}
    /\ now < MaxTime
    /\ now' = now + 1
    /\ UNCHANGED <<file, cache, pc, shown, widgets, df, filtered_df, kpis,
                   time_series_data, time_series_data_sorted, data_period, csv_data,
                   excel_data, error, steps>>

Next ==
    \/ FirstRun
    \/ Rerun
    \/ SelectTimePeriod
    \/ SelectYears
    \/ SelectMonths
    \/ SelectBusinessArea
    \/ SelectProcess
    \/ SelectMachine
    \/ LoadData
    \/ Sidebar
    \/ ApplyFilters
    \/ KeyMetrics
    \/ Aggregate
    \/ Charts
    \/ DataSummary
    \/ Export

Spec == Init /\ [][Next]_vars

\* The same program with the wall clock running, on spreadsheets of at most one row.
InitClock == Init /\ Len(file.rows) <= 1

NextClock ==
    \/ Next
    \/ Tick

SpecClock == InitClock /\ [][NextClock]_vars

\* ------------------------------------------------------------ properties
\* The run has completed this section.
Completed(section) == \E i \in DOMAIN steps : steps[i] = section

\* The columns the script reads from the sheet.
RequiredColumns == Range(FileColumns)

\* The load fails: the file is not there, or it lacks a required column.
LoadFails == ~file.exists \/ ~(RequiredColumns \subseteq file.columns)

SumColumns == {"Total_Executions", "Manual_Hours_Saved", "Cost_Savings_Dollars",
               "Successful_Executions", "Exception_Executions"}

RECURSIVE SumField(_, _)
\* The sum of a column of an aggregated table (plain numbers).
SumField(rows, col) ==
    IF rows = <<>> THEN 0 ELSE Head(rows)[col] + SumField(Tail(rows), col)

\* C1: for every granularity, the sums of the five summed columns over the rows
\* aggregate_data returned equal the sums over the filtered rows (a missing
\* amount counting as zero).
BucketSumsEqualFilteredSums ==
    Completed("aggregate") =>
        \A col \in SumColumns :
            SumField(time_series_data, col) = SumCol(filtered_df, col)

\* The orders in which the five filter steps can be applied.
StepOrders ==
    {o \in [1 .. 5 -> Range(ScriptOrder)] : \A i, j \in 1 .. 5 : o[i] = o[j] => i = j}

\* C2: the filter chain is order-independent and idempotent: when the chain has
\* run, every permutation of the five steps yields the table the script
\* computed, and the chain applied to its own result leaves it unchanged.
FilterChainOrderIndependentIdempotent ==
    pc = "kpi" =>
        /\ \A o \in StepOrders : ApplySteps(o, df, Selection) = filtered_df
        /\ apply_filters(filtered_df, Selection) = filtered_df

\* Witness of C2: a run in which the area and the machine filter both removed
\* rows, so that the order of the steps could matter.
FilterChainWitness ==
    /\ Completed("filters")
    /\ selected_business_area # "All"
    /\ selected_machine # "All"
    /\ BusinessAreaStep(df, selected_business_area) # df
    /\ MachineStep(df, selected_machine) # df
    /\ MachineStep(df, selected_machine) # <<>>
    /\ filtered_df = <<>>

\* The rows of the loaded table that satisfy all five predicates, a predicate
\* on years or months counting only when its selection is not empty.
ConjunctiveSubset ==
    SelectSeq(df, LAMBDA r :
        /\ selected_years = {} \/ r.Run_Year \in selected_years
        /\ selected_months = {} \/ r.Month \in selected_months
        /\ selected_business_area = "All" \/ r.Business_Area = selected_business_area
        /\ selected_process = "All" \/ r.Process_Name = selected_process
        /\ selected_machine = "All" \/ r.Machine_Name = selected_machine)

\* The rows of the loaded table whose year is among the selected years, whose
\* month is among the selected months and whose categorical fields match.
StrictConjunctiveSubset ==
    SelectSeq(df, LAMBDA r :
        /\ r.Run_Year \in selected_years
        /\ r.Month \in selected_months
        /\ selected_business_area = "All" \/ r.Business_Area = selected_business_area
        /\ selected_process = "All" \/ r.Process_Name = selected_process
        /\ selected_machine = "All" \/ r.Machine_Name = selected_machine)

\* The KPI row, the aggregation, the cumulative table, the summary and the
\* export were computed from the table view.
ComputedFrom(view) ==
    /\ Completed("kpi") =>
          /\ total_executions = SumCol(view, "Total_Executions")
          /\ total_hours_saved = SumCol(view, "Manual_Hours_Saved")
          /\ total_cost_savings = SumCol(view, "Cost_Savings_Dollars")
          /\ unique_processes = Cardinality({view[i].Process_Name : i \in DOMAIN view})
    /\ Completed("aggregate") =>
          time_series_data = GroupBySum(view, Columns, time_period).rows
    /\ Completed("summary") =>
          /\ \E i \in DOMAIN view : view[i].Date = data_period[1]
          /\ \A i \in DOMAIN view : ~LexLess(view[i].Date, data_period[1])
          /\ \A i \in DOMAIN view : ~LexLess(data_period[2], view[i].Date)
    /\ Completed("export") =>
          /\ Len(csv_data) = Len(view) + 1
          /\ \A i \in DOMAIN view : \A j \in DOMAIN csv_data[1] :
                csv_data[i + 1][j] = view[i][csv_data[1][j]]
          /\ excel_data.cells = csv_data

\* C3 as stated: filtered_df is exactly the rows of the full table whose year is
\* in the selected years, whose month is in the selected months and whose
\* business area, process and machine equal the selection unless it is 'All';
\* that subset is the input of the KPIs, aggregate_data, the summary and the export.
FilteredIsStrictConjunction ==
    Completed("filters") =>
        /\ filtered_df = StrictConjunctiveSubset
        /\ ComputedFrom(StrictConjunctiveSubset)

\* C3 as amended: the year predicate applies only when at least one year is
\* selected and the month predicate only when at least one month is selected;
\* otherwise as stated.
FilteredIsConjunction ==
    Completed("filters") =>
        /\ filtered_df = ConjunctiveSubset
        /\ ComputedFrom(ConjunctiveSubset)

\* Witness of C3: a finished run in which a year, a month and a business area
\* predicate were all applied and removed rows.
FilteredIsConjunctionWitness ==
    /\ pc = "done"
    /\ selected_years # {}
    /\ selected_months # {}
    /\ selected_business_area # "All"
    /\ filtered_df # <<>>
    /\ Len(filtered_df) < Len(df)

\* C4: when the filter chain yields no rows of a table that has rows (loaded
\* from a sheet with every column), the run ends without an exception, with all
\* five KPIs zero.
EmptyViewRendersZeroKpis ==
    (Waiting /\ ~LoadFails /\ Completed("filters") /\ df # <<>> /\ filtered_df = <<>>) =>
        /\ pc = "done"
        /\ error = NoError
        /\ total_executions = 0
        /\ total_hours_saved = 0
        /\ total_cost_savings = 0
        /\ success_rate[1] = 0
        /\ unique_processes = 0

\* C5: whenever the export is built, the CSV and the spreadsheet each hold one
\* data row per row of filtered_df, and both hold the rows of filtered_df.
ExportRowCountEqualsFiltered ==
    Completed("export") =>
        /\ Len(csv_data) - 1 = Len(filtered_df)
        /\ Len(excel_data.cells) - 1 = Len(filtered_df)
        /\ \A i \in DOMAIN filtered_df : \A j \in DOMAIN csv_data[1] :
              /\ csv_data[i + 1][j] = filtered_df[i][csv_data[1][j]]
              /\ excel_data.cells[i + 1][j] = filtered_df[i][excel_data.cells[1][j]]

\* Witness of C5: an export of a view that holds some but not all rows.
ExportWitness ==
    /\ pc = "done"
    /\ Len(filtered_df) >= 1
    /\ Len(filtered_df) < Len(df)
    /\ Len(csv_data) = Len(filtered_df) + 1

\* C6: a load failure of either kind is caught at load time, reported with the
\* missing columns, and the page halts: no section of the script completes and
\* the run ends with the exception raised inside load_data.
LoadFailureHaltsAtLoad ==
    LoadFails =>
        /\ steps = <<>>
        /\ Waiting => /\ error.line \in 60 .. 83
                      /\ error.kind \in {"FileNotFoundError", "KeyError"}

\* C7: a non-numeric cell of any of the five summed columns is coerced to
\* missing at load time, and no KPI or aggregation raises because of such a cell.
NonNumericCellsCoerced ==
    /\ Completed("load") =>
          \A i \in DOMAIN df : \A col \in SumColumns : ~IsText(df[i][col])
    /\ pc = "halted" => ~(error.kind = "TypeError" /\ error.line \in 164 .. 243)

\* The values of the column each granularity other than Weekly groups by.
LabelValues(view, period) ==
    CASE period = "Daily" -> {view[i].Date : i \in DOMAIN view}
      [] period = "Monthly" -> {view[i].Year_Month : i \in DOMAIN view} \ {NaNStr}
      [] period = "Quarterly" -> {view[i].Year_Quarter : i \in DOMAIN view}
      [] period = "Yearly" -> {<<view[i].Run_Year>> : i \in DOMAIN view}

\* C8: aggregate_data returns one row per bucket: for Weekly one row per distinct
\* (year, ISO week) pair of the input, labelled 'W<week> <year>'; for every other
\* granularity one row per distinct value of the label column, whose Period is
\* that value; no two rows carry the same Period.
OneRowPerBucket ==
    Completed("aggregate") =>
        LET labels == {time_series_data[i].Period : i \in DOMAIN time_series_data}
            pairs == {<<filtered_df[i].Run_Year, filtered_df[i].Week>> :
                          i \in DOMAIN filtered_df}
        IN /\ \A i, j \in DOMAIN time_series_data :
                 time_series_data[i].Period = time_series_data[j].Period => i = j
           /\ IF time_period = "Weekly"
              THEN /\ Len(time_series_data) = Cardinality(pairs)
                   /\ labels = {<<87>> \o Digits(p[2]) \o <<32>> \o Digits(p[1]) : p \in pairs}
              ELSE /\ Len(time_series_data) = Cardinality(LabelValues(filtered_df, time_period))
                   /\ labels = LabelValues(filtered_df, time_period)

\* Witness of C8: a Weekly aggregation of two rows that fall in the same ISO
\* week of different years.
OneRowPerBucketWitness ==
    /\ Completed("aggregate")
    /\ time_period = "Weekly"
    /\ Len(time_series_data) = 2
    /\ \E i, j \in DOMAIN filtered_df :
          /\ filtered_df[i].Week = filtered_df[j].Week
          /\ filtered_df[i].Run_Year # filtered_df[j].Run_Year

\* C9: aggregate_data applied to a table with no rows returns a table with no
\* rows and does not raise, for every granularity.
EmptyInputAggregatesToEmpty ==
    (Completed("kpi") /\ filtered_df = <<>> /\ pc # "aggregate") =>
        /\ Completed("aggregate")
        /\ time_series_data = <<>>

\* Witness of C9: a Weekly aggregation of an empty view of a table that has rows.
EmptyInputWitness ==
    /\ Completed("aggregate")
    /\ time_period = "Weekly"
    /\ df # <<>>
    /\ filtered_df = <<>>
    /\ time_series_data = <<>>

\* C10: the loaded table is never mutated: no step writes the file or changes
\* the cached table, the filter chain and every later section leave df as
\* load_data returned it, and every run works on the table the cache holds.
LoadedTableNeverMutated ==
    [][/\ file' = file
       /\ cache # NoCache => cache' = cache
       /\ (pc \notin {"idle", "load"} /\ pc' # "load") => df' = df
       /\ pc' \notin {"idle", "load", "halted"} =>
             /\ cache' # NoCache
             /\ df' = cache'[1].df
             /\ df' = load_data(file').df]_vars

\* Witness of C10: a finished run whose filter chain, aggregation, cumulative
\* table and export all produced derived tables smaller than the loaded one.
LoadedTableWitness ==
    /\ pc = "done"
    /\ Len(filtered_df) < Len(df)
    /\ time_series_data_sorted # <<>>
    /\ Len(csv_data) < Len(df) + 1
    /\ df = cache[1].df

\* The cached table has outlived its documented lifetime.
Expired == cache # NoCache /\ now - cache[1].loaded_at >= CacheLifetime

\* C11: the loaded file is served through a time-bounded read-through cache: a
\* re-execution reads the spreadsheet from disk only when no unexpired cached
\* table exists (the table it stores is then stamped with the current time), a
\* re-execution that finds an unexpired table uses it and leaves the cache alone,
\* and an expired table is not served.
CacheIsTimeBounded ==
    [][pc = "load" =>
         IF cache = NoCache \/ Expired
         THEN pc' = "sidebar" => cache' # NoCache /\ cache'[1].loaded_at = now
         ELSE cache' = cache /\ df' = cache[1].df]_vars

\* The selection with every year and every month of the loaded table selected,
\* the business area, process and machine as they are.
AllYearsAllMonths ==
    [Selection EXCEPT !.years = all_years(df),
                      !.months = MonthLabels(df, all_years(df))]

\* The month widget can be built with every year selected (no Month cell is
\* blank), so the selection of every year and every month can be made.
AllSelectable == StrptimeError(MonthLabels(df, all_years(df))) = NoError

\* C12: deselecting every year or every month does not empty the view.  With no
\* year selected the month selection is empty, no year or month predicate is
\* applied (with every other selection 'All' the view is the whole table), and
\* the view equals the one for every year and every month selected under the
\* same business area, process and machine; with years selected and no month
\* selected the view equals the one for every month of those years selected.
EmptySelectionKeepsEveryRow ==
    Completed("filters") =>
        /\ selected_years = {} =>
              /\ selected_months = {}
              /\ (/\ selected_business_area = "All"
                  /\ selected_process = "All"
                  /\ selected_machine = "All") => filtered_df = df
              /\ AllSelectable => filtered_df = apply_filters(df, AllYearsAllMonths)
        /\ (selected_years # {} /\ selected_months = {}) =>
              filtered_df =
                  apply_filters(df, [Selection EXCEPT
                                        !.months = MonthLabels(df, selected_years)])

\* Witness of C12: the user has deselected every year of a two-row table whose
\* months can all be selected; the view still holds the rows of the selected
\* business area.
EmptySelectionWitness ==
    /\ pc = "done"
    /\ "years" \in shown
    /\ selected_years = {}
    /\ Len(df) = 2
    /\ AllSelectable
    /\ selected_business_area # "All"
    /\ filtered_df # <<>>
    /\ Len(filtered_df) < Len(df)

\* The position of a month abbreviation in the calendar year.
MonthIndex(label) == CHOOSE i \in DOMAIN month_order : month_order[i] = label

\* The time span a row's bucket denotes, as a tuple that orders chronologically.
ChronKey(r, period) ==
    CASE period = "Daily" -> r.Date
      [] period = "Weekly" -> <<r.Run_Year, r.Week>>
      [] period = "Monthly" -> <<r.Run_Year, MonthIndex(r.Month)>>
      [] period = "Quarterly" -> <<r.Run_Year, r.Quarter>>
      [] OTHER -> <<r.Run_Year>>

\* The time span denoted by the Period p of an aggregated row of the view.
ChronOfPeriod(p) ==
    LET i == CHOOSE j \in DOMAIN filtered_df :
                 PeriodOfKey(GroupKey(filtered_df[j], time_period), time_period) = p
    IN ChronKey(filtered_df[i], time_period)

\* C13: for every granularity the cumulative cost-savings series runs in
\* chronological order of the periods: the rows sorted by Period are ordered by
\* the time span each Period denotes, the cumulative value at a period is the
\* sum of Cost_Savings_Dollars over that period and all chronologically earlier
\* ones, and the last value is the total cost savings of the view.  (Stated for
\* the views without a blank Month cell, whose rows all fall in a bucket.)
CumulativeIsChronological ==
    (Completed("charts") /\ \A i \in DOMAIN filtered_df : filtered_df[i].Month # NaNLabel) =>
        LET s == time_series_data_sorted
        IN /\ \A i, j \in DOMAIN s :
                  i < j => LexLess(ChronOfPeriod(s[i].Period), ChronOfPeriod(s[j].Period))
           /\ \A i \in DOMAIN s :
                  s[i].Cumulative_Savings =
                      SumCol(SelectSeq(filtered_df,
                                       LAMBDA r : ~LexLess(ChronOfPeriod(s[i].Period),
                                                           ChronKey(r, time_period))),
                             "Cost_Savings_Dollars")
           /\ s # <<>> => s[Len(s)].Cumulative_Savings = total_cost_savings

\* C14: the process options agree with the selected business area.  Once the
\* sidebar is built the selected process is one of the options offered, and
\* with a business area other than 'All' every option other than 'All' occurs in
\* a row of the full table with that business area; so with every year and
\* month selected and machine 'All', an offered process chosen together with
\* that area leaves a non-empty view.
ProcessOptionsAgreeWithArea ==
    Completed("sidebar") =>
        /\ selected_process \in process_names
        /\ selected_business_area # "All" =>
              \A p \in process_names \ {"All"} :
                  \E i \in DOMAIN df : /\ df[i].Business_Area = selected_business_area
                                       /\ df[i].Process_Name = p
        /\ (/\ Completed("filters")
            /\ selected_business_area # "All"
            /\ selected_process # "All"
            /\ selected_machine = "All"
            /\ selected_years = all_years(df)
            /\ selected_months = MonthLabels(df, all_years(df))) => filtered_df # <<>>

\* Witness of C14: a finished run with a business area and one of its processes
\* chosen, the process options being fewer than those of the whole table.
ProcessOptionsWitness ==
    /\ pc = "done"
    /\ selected_business_area # "All"
    /\ selected_process # "All"
    /\ selected_machine = "All"
    /\ selected_years = all_years(df)
    /\ selected_months = MonthLabels(df, all_years(df))
    /\ process_names # process_name_options(df, "All")
    /\ filtered_df # <<>>

\* The machine options are not restricted by the other selections: a run in
\* which the chosen machine occurs in the table but in no row of the chosen
\* business area and process.
MachineOptionsUnrestricted ==
    /\ Completed("filters")
    /\ selected_business_area # "All"
    /\ selected_process # "All"
    /\ selected_machine # "All"
    /\ selected_years = all_years(df)
    /\ BusinessAreaStep(df, selected_business_area) # <<>>
    /\ ProcessStep(df, selected_process) # <<>>
    /\ MachineStep(df, selected_machine) # <<>>
    /\ filtered_df = <<>>

\* Every Run_Month number of the view goes with one Month label (a blank cell
\* is no label).
OneLabelPerMonth(view) ==
    /\ \A i \in DOMAIN view : view[i].Month # NaNLabel
    /\ \A i, j \in DOMAIN view :
           view[i].Run_Month = view[j].Run_Month => view[i].Month = view[j].Month

\* Every Month label of the view goes with one Run_Month number.
OneMonthPerLabel(view) ==
    \A i, j \in DOMAIN view :
        view[i].Month = view[j].Month => view[i].Run_Month = view[j].Run_Month

\* The (Run_Year, Run_Month) pairs of the view.
YearMonthPairs(view) == {<<view[i].Run_Year, view[i].Run_Month>> : i \in DOMAIN view}

\* The Daily rows d are one row per (Run_Year, Run_Month) pair of the view, each
\* dated the first day of that month.
DailyIsOnePerCalendarMonth(d, view) ==
    /\ \A i \in DOMAIN d : d[i].Period[2] \in 1 .. 12 /\ d[i].Period[3] = 1
    /\ {<<d[i].Period[1], d[i].Period[2]>> : i \in DOMAIN d} = YearMonthPairs(view)
    /\ Len(d) = Cardinality(YearMonthPairs(view))

\* The Daily rows d and the Monthly aggregation of the view have the same number
\* of rows, and each Daily bucket has the sums of the Monthly bucket of its rows.
DailySameAsMonthly(d, view) ==
    LET m == aggregate_data(view, Columns, "Monthly").rows
        label(p) == view[CHOOSE i \in DOMAIN view : view[i].Date = p].Year_Month
    IN /\ Len(m) = Len(d)
       /\ \A i \in DOMAIN d :
              \E j \in DOMAIN m :
                  /\ m[j].Period = label(d[i].Period)
                  /\ \A c \in SumColumns : m[j][c] = d[i][c]

\* C15 as stated: under Daily every Period is the first day of a calendar
\* month and there is exactly one row per (Run_Year, Run_Month) pair of the
\* view; when each Run_Month number corresponds to one Month label, the Daily
\* result has the row count and the per-bucket sums of the Monthly result.
DailyEqualsMonthlyGivenOneLabel ==
    (Completed("aggregate") /\ time_period = "Daily") =>
        /\ DailyIsOnePerCalendarMonth(time_series_data, filtered_df)
        /\ OneLabelPerMonth(filtered_df) =>
               DailySameAsMonthly(time_series_data, filtered_df)

\* C15 as amended: the same, the Daily and Monthly results being compared when
\* the Run_Month numbers and the Month labels correspond one to one.
DailyEqualsMonthlyGivenOneToOne ==
    (Completed("aggregate") /\ time_period = "Daily") =>
        /\ DailyIsOnePerCalendarMonth(time_series_data, filtered_df)
        /\ (OneLabelPerMonth(filtered_df) /\ OneMonthPerLabel(filtered_df)) =>
               DailySameAsMonthly(time_series_data, filtered_df)

\* Witness of C15: a finished Daily run over a view of two calendar months whose
\* numbers and labels correspond one to one.
DailyEqualsMonthlyWitness ==
    /\ pc = "done"
    /\ time_period = "Daily"
    /\ Len(time_series_data) = 2
    /\ OneLabelPerMonth(filtered_df)
    /\ OneMonthPerLabel(filtered_df)

====
